---- MODULE Spec2Model ----
(***************************************************************************)
(* Model of the Orchestrator action menu (action_menu.cpp) together with   *)
(* the favorites store of OrchestratorSettings (settings.cpp).             *)
(*                                                                         *)
(* Strings are sequences of one-character strings, so that split, join,    *)
(* to_lower and trim are computed the way the code computes them.          *)
(***************************************************************************)
EXTENDS Integers, Sequences, FiniteSets, TLC

\* ------------------------------------------------------------------ bounds

\* Longest registry (number of registered actions) drawn at start-up.
MaxRegistry == 2

\* Longest text typed into the search box when the keywords are examined.
MaxText == 4

\* Number of nodes in the graph whose context menus are opened.
MaxGraphNodes == 5

\* The most input ports, and the most output ports, of a graph node.
MaxPorts == 2

\* ----------------------------------------------------------------- strings

Range(seq) == { seq[k] : k \in 1..Len(seq) }

Upper == <<"A","B","C","D","E","F","G","H","I","J","K","L","M","N","O","P","Q","R","S","T","U","V","W","X","Y","Z">>
Lower == <<"a","b","c","d","e","f","g","h","i","j","k","l","m","n","o","p","q","r","s","t","u","v","w","x","y","z">>
Other == <<"/"," ","<",">">>

\* The characters strings are made of.
Chars == Range(Upper) \cup Range(Lower) \cup Range(Other)

\* One character of String::to_lower: an upper-case letter becomes the
\* lower-case letter, every other character stays.
LowerChar == [c \in Chars |-> IF c \in Range(Upper) THEN Lower[CHOOSE k \in 1..Len(Upper) : Upper[k] = c] ELSE c]

\* String::to_lower.
to_lower(s) == [k \in 1..Len(s) |-> LowerChar[s[k]]]

\* Position of the first occurrence of the character sep in s at or after
\* from, or 0 when there is none.
FindChar(s, sep, from) == IF \E k \in from..Len(s) : s[k] = sep THEN CHOOSE k \in from..Len(s) : s[k] = sep /\ \A j \in from..(k-1) : s[j] # sep ELSE 0

RECURSIVE SplitFrom(_, _, _)
SplitFrom(s, sep, from) == LET end == FindChar(s, sep, from)
 IN IF end = 0 THEN << SubSeq(s, from, Len(s)) >>
    ELSE << SubSeq(s, from, end - 1) >> \o SplitFrom(s, sep, end + 1)

\* String::split with a one-character splitter and allow_empty = true:
\* empty pieces are kept and the empty string gives one empty piece.
split(s, sep) == SplitFrom(s, sep, 1)

\* String::trim_prefix / trim_suffix with a one-character argument: at most
\* one occurrence is removed.
trim_prefix(s, c) == IF Len(s) > 0 /\ s[1] = c THEN SubSeq(s, 2, Len(s)) ELSE s
trim_suffix(s, c) == IF Len(s) > 0 /\ s[Len(s)] = c THEN SubSeq(s, 1, Len(s) - 1) ELSE s

\* Whether sub occurs in s (the empty string occurs in every string).
contains(s, sub) == \E k \in 0..(Len(s) - Len(sub)) : SubSeq(s, k + 1, k + Len(sub)) = sub

\* PackedStringArray::has and ::find (1-based; 0 when absent).
has(arr, x) == \E k \in 1..Len(arr) : arr[k] = x
find(arr, x) == IF has(arr, x) THEN CHOOSE k \in 1..Len(arr) : arr[k] = x /\ \A j \in 1..(k-1) : arr[j] # x ELSE 0

\* PackedStringArray::remove_at.
remove_at(arr, k) == SubSeq(arr, 1, k - 1) \o SubSeq(arr, k + 1, Len(arr))

\* ------------------------------------------------------- action registry

Slash == "/"
Space == " "

\* The text of the favorites node (action_menu.cpp line 157).
FavoritesText == <<"F","a","v","o","r","i","t","e","s">>

\* Icon names: "Object", "int", the segment "Integer", and a name the
\* editor theme has no icon for.
ObjectIcon == <<"O","b","j","e","c","t">>
IntIcon == <<"i","n","t">>
IntegerText == <<"I","n","t","e","g","e","r">>
UnknownIconName == <<"q">>

\* An OrchestratorGraphActionMenuItem: its spec (category, text, tooltip),
\* whether get_handler() is valid, and whether the action is offered in the
\* graph context of the popup (used by the context-sensitive filter).
Item(category, text, handler, ctx) == [category |-> category, text |-> text, tooltip |-> text, icon |-> ObjectIcon, handler |-> handler, ctx |-> ctx]

\* The items a registrar can produce.  Categories are unique (the identity
\* of an action).  "M" stands for a category such as Math:
\*   M/a              an action of category M,
\*   m/V/s            a nested action of category M, written in lower case,
\*   M/V              the category entry of M/V: an item without a handler,
\*   x (text "m")     an action whose display text is a category name,
\*   favorites/f      an action whose first segment is named like Favorites.
ItemAdd == Item(<<"M","/","a">>, <<"a">>, TRUE, TRUE)
ItemSub == Item(<<"m","/","V","/","s">>, <<"s">>, TRUE, FALSE)
ItemCat == Item(<<"M","/","V">>, <<"V">>, FALSE, TRUE)
ItemLeaf == Item(<<"x">>, <<"m">>, TRUE, FALSE)
ItemFav == Item(to_lower(FavoritesText) \o <<"/","f">>, <<"f">>, TRUE, TRUE)

Universe == { ItemAdd, ItemSub, ItemCat, ItemLeaf, ItemFav }

\* Placeholder for the "item" meta of a node that has none.
NoItem == Item(<<>>, <<>>, FALSE, FALSE)

\* The registries drawn at start-up: the sequences of distinct items of at
\* most MaxRegistry elements, in every order.
Registries == { r \in UNION { [1..n -> Universe] : n \in 0..MaxRegistry } : \A a, b \in DOMAIN r : a # b => r[a] # r[b] }

\* ------------------------------------------------------------------- tree

\* The names the editor theme has an icon for.
ThemeIcons == { ObjectIcon, IntIcon, <<"V">> }

\* The icon shown for a name without icon: SceneUtils::get_icon(this,
\* "_not_found_") of line 149.
broken == "not found"

\* A tree item whose icon was never set.
NoIcon == "no icon"

\* SceneUtils::get_icon(this, name): the icon of the name (written as the
\* name itself), or the not-found icon.
get_icon(name) == IF name \in ThemeIcons THEN name ELSE broken

\* Mutant: a category node keeps the icon the lookup gave.
CategoryNode_no_fallback(parent, text) == [text |-> text, parent |-> parent, has_item |-> FALSE, item |-> NoItem, handler |-> FALSE, selectable |-> FALSE, favorite |-> "unset", collapsed |-> FALSE, icon |-> IF text = IntegerText THEN get_icon(IntIcon) ELSE get_icon(text)]

\* The items of _tree_view below its hidden root: a sequence of nodes in
\* creation order.  parent is the index of the parent, 0 for the root, so
\* the children of a node, in order, are the nodes naming it as parent.
\* handler: has_meta("handler"); has_item/item: the "item" meta;
\* selectable: is_selectable(0); favorite: the "favorite" meta, set only on
\* the nodes that carry the favorite button; icon: get_icon(0).
\* A category node (lines 188-201) takes the icon named after its segment,
\* "int" for the segment "Integer", and "Object" when that is not found.
CategoryNode(parent, text) == LET icon == IF text = IntegerText THEN get_icon(IntIcon) ELSE get_icon(text)
 IN [text |-> text, parent |-> parent, has_item |-> FALSE, item |-> NoItem, handler |-> FALSE, selectable |-> FALSE, favorite |-> "unset", collapsed |-> FALSE, icon |-> IF icon = broken THEN get_icon(ObjectIcon) ELSE icon]

Indices(tree) == [k \in 1..Len(tree) |-> k]

\* The children of p, in order.
Children(tree, p) == SelectSeq(Indices(tree), LAMBDA k : tree[k].parent = p)

\* Mutant: the texts are compared as they are written.
FindChild_case_sensitive(tree, parent, segment) == LET kids == Children(tree, parent)
 IN IF \E k \in 1..Len(kids) : tree[kids[k]].text = segment
    THEN kids[CHOOSE k \in 1..Len(kids) : tree[kids[k]].text = segment /\ \A j \in 1..(k-1) : tree[kids[j]].text # segment]
    ELSE 0

\* The first child of parent whose text equals segment ignoring case, or 0.
FindChild(tree, parent, segment) == LET kids == Children(tree, parent)
 IN IF \E k \in 1..Len(kids) : to_lower(tree[kids[k]].text) = to_lower(segment)
    THEN kids[CHOOSE k \in 1..Len(kids) : to_lower(tree[kids[k]].text) = to_lower(segment) /\ \A j \in 1..(k-1) : to_lower(tree[kids[j]].text) # to_lower(segment)]
    ELSE 0

\* Lines 186-202: the remaining segments j .. size-2 become new nodes.
RECURSIVE CreateCategories(_, _, _, _)
CreateCategories(tree, parent, categories, j) == IF j > Len(categories) - 1 THEN [tree |-> tree, parent |-> parent]
 ELSE LET t == Append(tree, CategoryNode(parent, categories[j])) IN CreateCategories(t, Len(t), categories, j + 1)

\* Lines 168-205: walk the segments but the last from the root.
RECURSIVE WalkCategories(_, _, _, _)
WalkCategories(tree, parent, categories, i) == IF i > Len(categories) - 1 THEN [tree |-> tree, parent |-> parent]
 ELSE LET child == FindChild(tree, parent, categories[i])
      IN IF child # 0 THEN WalkCategories(tree, child, categories, i + 1)
         ELSE CreateCategories(tree, parent, categories, i)

\* Mutant: every item is made selectable, with or without a handler.
MakeItem_always_selectable(tree, p_parent, p_menu_item, p_text) == Append(tree, [text |-> p_text, parent |-> p_parent, has_item |-> TRUE, item |-> p_menu_item, handler |-> p_menu_item.handler, selectable |-> TRUE, favorite |-> "unset", collapsed |-> FALSE, icon |-> get_icon(p_menu_item.icon)])

\* _make_item: the new node is the last of the tree.
MakeItem(tree, p_parent, p_menu_item, p_text) == Append(tree, [text |-> p_text, parent |-> p_parent, has_item |-> TRUE, item |-> p_menu_item, handler |-> p_menu_item.handler, selectable |-> p_menu_item.handler, favorite |-> "unset", collapsed |-> FALSE, icon |-> get_icon(p_menu_item.icon)])

\* Mutant: the path is joined from the parent upwards.
RECURSIVE FavoritePath_parent_first(_, _, _)
FavoritePath_parent_first(tree, p_parent, favorite_text) == IF p_parent = 0 THEN favorite_text
 ELSE FavoritePath_parent_first(tree, tree[p_parent].parent, IF favorite_text # <<>> THEN favorite_text \o <<Slash>> \o tree[p_parent].text ELSE tree[p_parent].text)

RECURSIVE FavoritePath(_, _, _)
FavoritePath(tree, p_parent, favorite_text) == IF p_parent = 0 THEN favorite_text
 ELSE FavoritePath(tree, tree[p_parent].parent, IF favorite_text # <<>> THEN tree[p_parent].text \o <<Slash>> \o favorite_text ELSE tree[p_parent].text)

\* _create_favorite_item_text
CreateFavoriteItemText(tree, p_parent, p_menu_item) == <<"<">> \o FavoritePath(tree, p_parent, <<>>) \o <<">", Space>> \o p_menu_item.text

\* ------------------------------------------------- selection (Tree widget)

\* The part of the menu a generation pass works on: the tree, the tree's
\* selected item (0: none), the OK button and _selection.
\* g == [tree, selected, ok_disabled, selection]

\* _on_tree_item_selected
OnTreeItemSelected(g) == LET g1 == [g EXCEPT !.ok_disabled = FALSE]
 IN IF g1.selected # 0 /\ g1.tree[g1.selected].has_item THEN [g1 EXCEPT !.selection = g1.tree[g1.selected].item.category] ELSE g1

\* Tree::set_selected(node, 0): a node whose column 0 is selectable becomes
\* the selected item and the tree emits item_selected, which line 96
\* connects to _on_tree_item_selected.
set_selected(g, node) == IF g.tree[node].selectable /\ g.selected # node THEN OnTreeItemSelected([g EXCEPT !.selected = node]) ELSE g

\* ------------------------------------------------------------ generation

\* Mutant: the stored list is not read, the default is returned.
get_action_favorites_default(ps) == <<>>

\* OrchestratorSettings::get_action_favorites on the project settings
\* ps == [exists, list]: the default is an empty array.
get_action_favorites(ps) == IF ps.exists THEN ps.list ELSE <<>>

\* Mutant: the items of the previous tree are not cleared.
TreeClear_keeps_items(g) == [g EXCEPT !.selected = 0]

\* Mutant: clearing the tree also forgets the stored selection.
TreeClear_forgets_selection(g) == [g EXCEPT !.tree = <<>>, !.selected = 0, !.selection = <<>>]

\* Lines 144-146: _tree_view->clear() and the new root.
TreeClear(g) == [g EXCEPT !.tree = <<>>, !.selected = 0]

\* Lines 153-159: the favorites node, or 0 for nullptr.
CreateFavorites(g, action_favorites) == IF action_favorites # <<>> THEN [g EXCEPT !.tree = Append(@, [CategoryNode(0, FavoritesText) EXCEPT !.icon = NoIcon])] ELSE g

\* Mutant: the stored selection is not applied (lines 214-215 missing).
AddItem_without_selection(g, action_favorites, favorites, item) == LET categories == split(item.category, Slash)
     w == WalkCategories(g.tree, 0, categories, 1)
     t1 == MakeItem(w.tree, w.parent, item, item.text)
     node == Len(t1)
     is_favorite == has(action_favorites, item.category)
     g2 == [g EXCEPT !.tree = [t1 EXCEPT ![node].favorite = IF is_favorite THEN "yes" ELSE "no"]]
 IN IF is_favorite THEN [g2 EXCEPT !.tree = MakeItem(g2.tree, favorites, item, CreateFavoriteItemText(g2.tree, w.parent, item))] ELSE g2

\* Lines 164-218: the body of the loop over the items.
AddItem(g, action_favorites, favorites, item) == LET categories == split(item.category, Slash)
     w == WalkCategories(g.tree, 0, categories, 1)
     t1 == MakeItem(w.tree, w.parent, item, item.text)
     node == Len(t1)
     is_favorite == has(action_favorites, item.category)
     g2 == [g EXCEPT !.tree = [t1 EXCEPT ![node].favorite = IF is_favorite THEN "yes" ELSE "no"]]
     g3 == IF item.category = g2.selection THEN set_selected(g2, node) ELSE g2
 IN IF is_favorite THEN [g3 EXCEPT !.tree = MakeItem(g3.tree, favorites, item, CreateFavoriteItemText(g3.tree, w.parent, item))] ELSE g3

RECURSIVE AddItems(_, _, _, _)
AddItems(g, action_favorites, favorites, items) == IF items = <<>> THEN g ELSE AddItems(AddItem(g, action_favorites, favorites, Head(items)), action_favorites, favorites, Tail(items))

\* The children of p that are not deleted.
LiveChildren(tree, removed, p) == SelectSeq(Indices(tree), LAMBDA k : tree[k].parent = p /\ k \notin removed)

\* Mutant: the handler of a childless node is not looked at.
IsEmptyActionNode_any_leaf(tree, removed, child) == Len(LiveChildren(tree, removed, child)) = 0

\* Whether the loop of _remove_empty_action_nodes deletes child once its
\* subtree has been handled (line 272).
IsEmptyActionNode(tree, removed, child) == Len(LiveChildren(tree, removed, child)) = 0 /\ ~tree[child].handler

\* _remove_empty_action_nodes(p_parent): the set of deleted nodes.
RECURSIVE RemoveEmptyChildren(_, _, _)
RECURSIVE RemoveEmptyChildren_parent_first(_, _, _)
RECURSIVE RemoveEmptyBelow(_, _, _)
\* Mutant: a child is judged before its own subtree has been pruned.
RemoveEmptyChildren_parent_first(tree, removed, kids) == IF kids = <<>> THEN removed
 ELSE LET child == Head(kids)
          r1 == IF IsEmptyActionNode(tree, removed, child) THEN removed \cup {child} ELSE removed
      IN RemoveEmptyChildren_parent_first(tree, RemoveEmptyBelow(tree, r1, child), Tail(kids))
RemoveEmptyChildren(tree, removed, kids) == IF kids = <<>> THEN removed
 ELSE LET child == Head(kids)
          r1 == RemoveEmptyBelow(tree, removed, child)
          r2 == IF IsEmptyActionNode(tree, r1, child) THEN r1 \cup {child} ELSE r1
      IN RemoveEmptyChildren(tree, r2, Tail(kids))
RemoveEmptyBelow(tree, removed, p_parent) == RemoveEmptyChildren(tree, removed, LiveChildren(tree, removed, p_parent))

\* The tree without the deleted nodes: the nodes that remain keep their
\* order, and a deleted node is no longer the selected item.
Renumber(removed, k) == IF k = 0 \/ k \in removed THEN 0 ELSE Cardinality({ j \in 1..k : j \notin removed })
Compact(g, removed) == LET kept == SelectSeq(Indices(g.tree), LAMBDA k : k \notin removed)
 IN [g EXCEPT !.tree = [k \in 1..Len(kept) |-> [g.tree[kept[k]] EXCEPT !.parent = Renumber(removed, @)]], !.selected = Renumber(removed, @)]

\* Mutant: the tree is displayed without the pruning of line 221.
RemoveEmptyActionNodes_skipped(g) == g

\* Line 221: _remove_empty_action_nodes(_tree_view->get_root()).
RemoveEmptyActionNodes(g) == Compact(g, RemoveEmptyBelow(g.tree, {}, 0))

\* _generate_filtered_actions
GenerateFilteredActions(g, items, ps) == LET action_favorites == get_action_favorites(ps)
     g1 == CreateFavorites(TreeClear(g), action_favorites)
     favorites == IF action_favorites # <<>> THEN 1 ELSE 0
 IN RemoveEmptyActionNodes(AddItems(g1, action_favorites, favorites, items))

\* ------------------------------------------------------------- action db

\* OrchestratorGraphActionDB::load and get_items: the registered items that
\* pass the filter, in registry order.  An item passes when it is offered
\* in the context (if the filter is context sensitive) and every keyword
\* occurs, ignoring case, in its text, category or tooltip.
KeywordMatches(item, keyword) == LET kw == to_lower(keyword) IN contains(to_lower(item.text), kw) \/ contains(to_lower(item.category), kw) \/ contains(to_lower(item.tooltip), kw)
MatchesFilter(item, p_filter) == (p_filter.context_sensitive => item.ctx) /\ (\A k \in 1..Len(p_filter.keywords) : KeywordMatches(item, p_filter.keywords[k]))
load(items, p_filter) == SelectSeq(items, LAMBDA item : MatchesFilter(item, p_filter))

\* --------------------------------------------------------------- settings

\* ProjectSettings::save (lines 96 and 113): the project file receives the
\* list held in memory.
save(ps) == [ps EXCEPT !.saved = ps.list]

\* Mutant: add_action_favorite that does not save.
add_action_favorite_unsaved(ps, p_action_name) == LET ps1 == IF ~ps.exists THEN [ps EXCEPT !.exists = TRUE, !.list = <<>>] ELSE ps
     actions == get_action_favorites(ps1)
 IN IF ~has(actions, p_action_name) THEN [ps1 EXCEPT !.list = Append(actions, p_action_name)] ELSE ps1

\* Mutant: the path is appended whether or not the list holds it.
add_action_favorite_always_appends(ps, p_action_name) == LET ps1 == IF ~ps.exists THEN [ps EXCEPT !.exists = TRUE, !.list = <<>>] ELSE ps
 IN save([ps1 EXCEPT !.list = Append(get_action_favorites(ps1), p_action_name)])

\* OrchestratorSettings::add_action_favorite
add_action_favorite(ps, p_action_name) == LET ps1 == IF ~ps.exists THEN [ps EXCEPT !.exists = TRUE, !.list = <<>>] ELSE ps
     actions == get_action_favorites(ps1)
 IN IF ~has(actions, p_action_name) THEN save([ps1 EXCEPT !.list = Append(actions, p_action_name)]) ELSE ps1

\* OrchestratorSettings::remove_action_favorite
remove_action_favorite(ps, p_action_name) == IF ~ps.exists THEN ps
 ELSE LET actions == get_action_favorites(ps)
      IN IF has(actions, p_action_name) THEN save([ps EXCEPT !.list = remove_at(actions, find(actions, p_action_name))]) ELSE ps

\* ------------------------------------------ the settings of the plugin

\* _get_base_key(): the prefix of every key of the plugin.
BaseKey == "orchestrator"

\* _register_settings (130-192): some of the registered settings, each with
\* its name and default value.
RegisteredSettings == << [name |-> "settings/default_type", value |-> "Node"], [name |-> "settings/log_level", value |-> "INFO"], [name |-> "ui/node_colors/flow_control", value |-> "Color(0.132, 0.258, 0.266)"] >>

\* _register_deprecated_settings (117-128): some of the removed settings.
RemovedSettings == << [name |-> "run/test_scene", value |-> "res://addons/test/test.tscn"], [name |-> "nodes/colors/flow_control", value |-> "Color(0.2510, 0.4549, 0.2078)"] >>

\* vformat("%s/%s", _get_base_key(), name), written as a pair.
KeyOf(name) == << BaseKey, name >>

\* A key of the project that is none of the plugin's.
ForeignKey == << "application", "config/name" >>

\* The key of the action favorites (lines 73, 81 and 104).
FavoritesKey == KeyOf("settings/action_favorites")

SettingKeys == { KeyOf(RegisteredSettings[k].name) : k \in 1..Len(RegisteredSettings) } \cup { KeyOf(RemovedSettings[k].name) : k \in 1..Len(RemovedSettings) } \cup { ForeignKey, FavoritesKey }

\* A key the project settings do not have.
NoEntry == [exists |-> FALSE, value |-> "", initial |-> "", info |-> FALSE, basic |-> FALSE]

\* ProjectSettings: has_setting, set_setting, set_initial_value,
\* add_property_info, set_as_basic and clear on a store (key -> entry).
has_setting(store, key) == store[key].exists
set_setting(store, key, value) == [store EXCEPT ![key].exists = TRUE, ![key].value = value]
set_initial_value(store, key, value) == [store EXCEPT ![key].initial = value]
add_property_info(store, key) == [store EXCEPT ![key].info = TRUE]
set_as_basic(store, key, basic) == [store EXCEPT ![key].basic = basic]

\* Mutant: clear that empties the whole configuration.
clear_setting_everything(store, key) == [k \in DOMAIN store |-> NoEntry]

\* ProjectSettings::clear(key): the key is erased.
clear_setting(store, key) == [store EXCEPT ![key] = NoEntry]

\* Mutant: the default is written over a value that exists.
InitializeSetting_overwrites(store, setting) == LET key == KeyOf(setting.name)
 IN set_as_basic(add_property_info(set_initial_value(set_setting(store, key, setting.value), key, setting.value), key), key, TRUE)

\* The body of the loop of _initialize_settings (203-218).
InitializeSetting(store, setting) == LET key == KeyOf(setting.name)
     s1 == IF ~has_setting(store, key) THEN set_setting(store, key, setting.value) ELSE store
 IN set_as_basic(add_property_info(set_initial_value(s1, key, setting.value), key), key, TRUE)

\* _initialize_settings (194-220) over the registered settings.
RECURSIVE InitializeSettings(_, _)
InitializeSettings(store, settings) == IF settings = <<>> THEN store ELSE InitializeSettings(InitializeSetting(store, Head(settings)), Tail(settings))

\* _update_default_settings (222-233): the removed settings are cleared.
RECURSIVE UpdateDefaultSettings(_, _)
UpdateDefaultSettings(store, removed) == IF removed = <<>> THEN store
 ELSE LET key == KeyOf(Head(removed).name) IN UpdateDefaultSettings(IF has_setting(store, key) THEN clear_setting(store, key) ELSE store, Tail(removed))

\* ------------------------------------------------------------------ state

VARIABLES
  registry,       \* the items the registrars give the action db, in order
  _action_db,     \* _action_db.get_items(): the items that passed the filter
  _filter,        \* [keywords, context_sensitive]
  _selection,     \* the category of the last selected item
  project_settings, \* the favorites key of the project settings: [exists, list, saved]
  _tree_view,     \* the items of the tree below its root
  selected,       \* _tree_view->get_selected(), 0 for none
  ok_disabled,    \* get_ok_button()->is_disabled()
  visible,        \* whether the popup is shown
  last_op,        \* history: what the last step did to the tree
  clicks,         \* history: the favorite-button clicks made in succession
  _filters_text_box, \* the text of the search box
  external,       \* history: favorites changed outside the menu ("none",
                  \* "pending" until the next pass, "shown" after it)
  orchestrator_settings, \* the other keys of the project settings
  graph,          \* the graph editor: its selected nodes, the open context menu
  _collapse,      \* _collapse->is_pressed()
  _expand,        \* _expand->is_pressed()
  emitted,        \* the signals the menu emitted in its last confirm or
                  \* activation, in order
  graph_node      \* one OrchestratorGraphNode: the alpha of the colour of each
                  \* input port (left) and output port (right), and the last
                  \* count asked of it

\* What the action menu never touches.
\* No count was asked of the node since its ports last changed.
NotAsked == [op |-> "none", opacity |-> 0, result |-> 0]

plugin_vars == << orchestrator_settings, graph, graph_node >>

\* The toggle buttons above the tree.
toolbar_vars == << _collapse, _expand >>

vars == << registry, _action_db, _filter, _selection, project_settings, _tree_view, selected, ok_disabled, visible, last_op, clicks, _filters_text_box, external, plugin_vars, toolbar_vars, emitted >>

\* The favorites found in the project settings at start-up: no key, or a
\* list naming ItemAdd (registered or not).
InitialSettings == { [exists |-> FALSE, list |-> <<>>, saved |-> <<>>], [exists |-> TRUE, list |-> << ItemAdd.category >>, saved |-> << ItemAdd.category >>] }

\* The filters graph editors open the menu with.
OpenFilters == { [keywords |-> kw, context_sensitive |-> cs] : kw \in { <<>> }, cs \in BOOLEAN }

\* The texts typed into the search box.
FilterTexts == { <<>>, <<Space, "M">> }

NoClicks == [n |-> 0, category |-> <<>>, original |-> {}]

\* The plugin outside the menu at rest: a project without any of the keys,
\* a graph without selection or context menu.
PluginIdle == /\ orchestrator_settings = [constructed |-> FALSE, keys |-> [key \in SettingKeys |-> NoEntry], cleared |-> {}]
              /\ graph = [selected |-> {}, context_menu |-> 0]
              /\ graph_node = [left |-> <<>>, right |-> <<>>, asked |-> NotAsked]

\* State after construction and NOTIFICATION_READY (lines 31-114): an empty
\* tree, a default filter, OK disabled (line 103), the popup hidden.
MenuStart(registries) == /\ registry \in registries
                        /\ project_settings \in InitialSettings
                        /\ _action_db = <<>>
                        /\ _filter = [keywords |-> <<>>, context_sensitive |-> FALSE]
                        /\ _selection = <<>>
                        /\ _tree_view = <<>>
                        /\ selected = 0
                        /\ ok_disabled = TRUE
                        /\ visible = FALSE
                        /\ last_op = "none"
                        /\ clicks = NoClicks
                        /\ _filters_text_box = <<>>
                        /\ external = "none"
                        /\ _collapse = FALSE
                        /\ _expand = TRUE
                        /\ emitted = <<>>

MenuInit(registries) == /\ MenuStart(registries)
                        /\ PluginIdle

Init == MenuInit(Registries)

Menu == [tree |-> _tree_view, selected |-> selected, ok_disabled |-> ok_disabled, selection |-> _selection]

SetMenu(g) == /\ _tree_view' = g.tree
              /\ selected' = g.selected
              /\ ok_disabled' = g.ok_disabled
              /\ _selection' = g.selection

\* The first child of p, or 0.
get_first_child(tree, p) == LET kids == Children(tree, p) IN IF kids = <<>> THEN 0 ELSE kids[1]

\* Lines 339-350: from the first top-level item down through first children
\* to an item without children (0 when the tree is empty).
RECURSIVE FirstLeafFrom(_, _)
FirstLeafFrom(tree, child) == IF child = 0 THEN 0 ELSE IF Len(Children(tree, child)) > 0 THEN FirstLeafFrom(tree, get_first_child(tree, child)) ELSE child

\* Lines 325-330: the keywords of a search text.
Keywords(p_new_text) == LET filter_text == trim_suffix(trim_prefix(p_new_text, Space), Space)
 IN IF filter_text # <<>> THEN LET parts == split(filter_text, Space) IN [k \in 1..Len(parts) |-> to_lower(parts[k])] ELSE <<>>

\* ------------------------------------------- collapse and expand buttons

\* The menu with its toggle buttons: the record a handler of the buttons
\* works on.
Panel == [tree |-> _tree_view, selected |-> selected, ok_disabled |-> ok_disabled, selection |-> _selection, collapse |-> _collapse, expand |-> _expand]

SetPanel(g) == /\ SetMenu(g)
               /\ _collapse' = g.collapse
               /\ _expand' = g.expand

\* The loops over the top-level items with set_collapsed_recursive (429-434
\* and 446-454): every item lies at or below a top-level item.
SetCollapsedRecursive(tree, collapsed) == [k \in 1..Len(tree) |-> [tree[k] EXCEPT !.collapsed = collapsed]]

\* _apply_selection (290-312): p_item and then its children, in order, are
\* searched for the item of category _selection, which is selected.
RECURSIVE ApplySelection(_, _)
RECURSIVE ApplySelectionIn(_, _)
ApplySelection(g, p_item) == IF g.tree[p_item].has_item /\ g.tree[p_item].item.category = g.selection THEN [g |-> set_selected(g, p_item), applied |-> TRUE] ELSE ApplySelectionIn(g, Children(g.tree, p_item))

\* The loop over the children of an item (303-309), and over the top-level
\* items in _on_expand_tree (446-454).
ApplySelectionIn(g, kids) == IF kids = <<>> THEN [g |-> g, applied |-> FALSE]
 ELSE LET r == ApplySelection(g, Head(kids)) IN IF r.applied THEN r ELSE ApplySelectionIn(g, Tail(kids))

\* _on_collapse_tree(p_collapsed)
OnCollapseTree(g, p_collapsed) == LET g1 == IF p_collapsed THEN [g EXCEPT !.expand = FALSE, !.tree = SetCollapsedRecursive(@, TRUE)] ELSE g
 IN [g1 EXCEPT !.collapse = TRUE]

\* _on_expand_tree(p_expanded)
OnExpandTree(g, p_expanded) == LET g0 == [g EXCEPT !.collapse = FALSE, !.tree = SetCollapsedRecursive(@, FALSE)]
     g1 == IF p_expanded THEN (IF g0.selection # <<>> THEN ApplySelectionIn(g0, Children(g0.tree, 0)).g ELSE g0) ELSE g
 IN [g1 EXCEPT !.expand = TRUE]

\* BaseButton::set_pressed(p_pressed) on _collapse and on _expand: a change
\* of the pressed state emits toggled, which lines 67 and 76 connect to
\* the handlers above.
SetCollapsePressed(g, p_pressed) == IF g.collapse = p_pressed THEN g ELSE OnCollapseTree([g EXCEPT !.collapse = p_pressed], p_pressed)
SetExpandPressed(g, p_pressed) == IF g.expand = p_pressed THEN g ELSE OnExpandTree([g EXCEPT !.expand = p_pressed], p_pressed)

\* History: a generation pass shows the favorites changed outside the menu.
AfterPass == external' = IF external = "pending" THEN "shown" ELSE "none"

\* ---------------------------------------------------------------- actions

\* apply_filter(p_filter): a graph editor opens the menu.
ApplyFilter(p_filter) ==
  /\ ~visible
  /\ _filter' = p_filter
  /\ _action_db' = load(registry, p_filter)
  /\ SetPanel(GenerateFilteredActions(SetExpandPressed(SetCollapsePressed(Panel, FALSE), TRUE), load(registry, p_filter), project_settings))
  /\ visible' = TRUE
  /\ last_op' = "generate"
  /\ clicks' = NoClicks
  /\ AfterPass
  /\ UNCHANGED << registry, project_settings, _filters_text_box, plugin_vars, emitted >>

\* _on_context_sensitive_toggled(p_new_state): the check box is toggled.
OnContextSensitiveToggled ==
  /\ visible
  /\ LET f == [_filter EXCEPT !.context_sensitive = ~_filter.context_sensitive]
     IN /\ _filter' = f
        /\ _action_db' = load(registry, f)
        /\ SetMenu(GenerateFilteredActions(Menu, load(registry, f), project_settings))
  /\ last_op' = "generate"
  /\ clicks' = NoClicks
  /\ AfterPass
  /\ UNCHANGED << registry, project_settings, visible, _filters_text_box, plugin_vars, toolbar_vars, emitted >>

\* _on_filter_text_changed(p_new_text)
FilterTextChanged(g, items, ps, keywords) == LET g1 == GenerateFilteredActions([g EXCEPT !.ok_disabled = TRUE], items, ps)
     child == FirstLeafFrom(g1.tree, get_first_child(g1.tree, 0))
 IN IF keywords # <<>> /\ child # 0 THEN set_selected(g1, child) ELSE g1

OnFilterTextChanged(p_new_text) ==
  /\ visible
  /\ p_new_text # _filters_text_box
  /\ _filters_text_box' = p_new_text
  /\ LET f == [_filter EXCEPT !.keywords = Keywords(p_new_text)]
     IN /\ _filter' = f
        /\ _action_db' = load(registry, f)
        /\ SetMenu(FilterTextChanged(Menu, load(registry, f), project_settings, f.keywords))
        /\ last_op' = IF f.keywords # <<>> THEN "keywords" ELSE "generate"
  /\ clicks' = NoClicks
  /\ AfterPass
  /\ UNCHANGED << registry, project_settings, visible, plugin_vars, toolbar_vars, emitted >>

\* The user selects an item of the tree: item_selected.
SelectItem(node) ==
  /\ visible
  /\ node \in 1..Len(_tree_view)
  /\ _tree_view[node].selectable
  /\ node # selected
  /\ SetMenu(OnTreeItemSelected([Menu EXCEPT !.selected = node]))
  /\ last_op' = "none"
  /\ clicks' = NoClicks
  /\ UNCHANGED << registry, _action_db, _filter, project_settings, visible, _filters_text_box, external, plugin_vars, toolbar_vars, emitted >>

\* Mutant: a click always adds the favorite.
ToggleFavorite_always_add(ps, p_item) == IF p_item.has_item THEN add_action_favorite(ps, p_item.item.category) ELSE ps

\* Lines 376-399: the favorite is added or removed after the "favorite"
\* meta of the clicked item.
ToggleFavorite(ps, p_item) == IF p_item.favorite # "yes"
   THEN (IF p_item.has_item THEN add_action_favorite(ps, p_item.item.category) ELSE ps)
   ELSE (IF p_item.has_item THEN remove_action_favorite(ps, p_item.item.category) ELSE ps)

\* _on_tree_button_clicked(p_item, ...): the favorite button of an item.
OnTreeButtonClicked(node) ==
  /\ visible
  /\ node \in 1..Len(_tree_view)
  /\ _tree_view[node].favorite # "unset"
  /\ LET ps == ToggleFavorite(project_settings, _tree_view[node])
         category == _tree_view[node].item.category
     IN /\ project_settings' = ps
        /\ _action_db' = load(registry, _filter)
        /\ SetMenu(GenerateFilteredActions(Menu, load(registry, _filter), ps))
        /\ clicks' = IF clicks.n = 1 /\ clicks.category = category THEN [clicks EXCEPT !.n = 2]
                     ELSE [n |-> 1, category |-> category, original |-> Range(get_action_favorites(project_settings))]
  /\ last_op' = "generate"
  /\ AfterPass
  /\ UNCHANGED << registry, _filter, visible, _filters_text_box, plugin_vars, toolbar_vars, emitted >>

\* Mutant: closing keeps the stored selection.
OnCloseRequested_keeps_selection ==
  /\ visible
  /\ _filters_text_box' = <<>>
  /\ ok_disabled' = TRUE
  /\ visible' = FALSE
  /\ last_op' = "none"
  /\ clicks' = NoClicks
  /\ UNCHANGED << registry, _action_db, _filter, project_settings, _tree_view, selected, external, plugin_vars, _selection, toolbar_vars, emitted >>

\* _on_close_requested: canceled or close_requested.
OnCloseRequested ==
  /\ visible
  /\ _filters_text_box' = <<>>
  /\ _selection' = <<>>
  /\ ok_disabled' = TRUE
  /\ visible' = FALSE
  /\ last_op' = "none"
  /\ clicks' = NoClicks
  /\ UNCHANGED << registry, _action_db, _filter, project_settings, _tree_view, selected, external, plugin_vars, toolbar_vars, emitted >>

Next == \/ \E p_filter \in OpenFilters : ApplyFilter(p_filter)
        \/ OnContextSensitiveToggled
        \/ \E p_new_text \in FilterTexts : OnFilterTextChanged(p_new_text)
        \/ \E node \in 1..Len(_tree_view) : SelectItem(node)
        \/ \E node \in 1..Len(_tree_view) : OnTreeButtonClicked(node)
        \/ OnCloseRequested

Spec == Init /\ [][Next]_vars

\* ------------------------------------------- a session of the action menu

\* The registries of the owning script during a session: what its
\* functions, variables and signals give before and after a change.
SessionRegistries == { <<>>, << ItemLeaf >>, << ItemAdd, ItemLeaf >> }

\* The category paths whose favorite state is changed outside the menu.
ExternalPaths == { ItemLeaf.category }

\* Mutant: clear that leaves the items of the action db in place.
Clear_keeps_items(db) == db

\* clear (lines 117-120): _action_db.clear().
Clear(db) == <<>>

\* The owning script emits functions_changed, variables_changed or
\* signals_changed (lines 110-113) after its structure changed to items.
ScriptChanged(items) ==
  /\ items # registry
  /\ registry' = items
  /\ _action_db' = Clear(_action_db)
  /\ last_op' = "clear"
  /\ clicks' = NoClicks
  /\ UNCHANGED << _filter, _selection, project_settings, _tree_view, selected, ok_disabled, visible, _filters_text_box, external, plugin_vars, toolbar_vars, emitted >>

\* The favorites key of the project settings is changed outside the menu
\* (the project settings are shared with the rest of the editor).
ExternalFavoriteChange(p_action_name) ==
  /\ project_settings' = IF has(get_action_favorites(project_settings), p_action_name) THEN remove_action_favorite(project_settings, p_action_name) ELSE add_action_favorite(project_settings, p_action_name)
  /\ external' = "pending"
  /\ last_op' = "none"
  /\ clicks' = NoClicks
  /\ UNCHANGED << registry, _action_db, _filter, _selection, _tree_view, selected, ok_disabled, visible, _filters_text_box, plugin_vars, toolbar_vars, emitted >>

\* emit_signal("close_requested") as its listeners receive it.
CloseRequested == [signal |-> "close_requested", handler |-> FALSE, of |-> <<>>]

\* emit_signal("action_selected", handler.ptr()) for the item p_selected:
\* handler tells whether the pointer is that of a handler (not null), of
\* names the action the handler belongs to.
ActionSelected(tree, p_selected) == [signal |-> "action_selected", handler |-> tree[p_selected].handler, of |-> tree[p_selected].item.category]

\* Mutant: action_selected is emitted whether or not an item is selected.
NotifyAndClose_unchecked(tree, p_selected) == << IF p_selected # 0 THEN ActionSelected(tree, p_selected) ELSE [signal |-> "action_selected", handler |-> FALSE, of |-> <<>>], CloseRequested >>

\* _notify_and_close (279-288): the signals it emits, in order.
NotifyAndClose(tree, p_selected) == (IF p_selected # 0 THEN << ActionSelected(tree, p_selected) >> ELSE <<>>) \o << CloseRequested >>

\* The run of _notify_and_close(_tree_view->get_selected()): the signals
\* are emitted, and close_requested runs _on_close_requested (line 107,
\* lines 405-415) before emit_signal returns.
NotifiedAndClosed ==
  /\ visible
  /\ emitted' = NotifyAndClose(_tree_view, selected)
  /\ _filters_text_box' = <<>>
  /\ _selection' = <<>>
  /\ ok_disabled' = TRUE
  /\ visible' = FALSE
  /\ last_op' = "notify"
  /\ clicks' = NoClicks
  /\ UNCHANGED << registry, _action_db, _filter, project_settings, _tree_view, selected, external, plugin_vars, toolbar_vars >>

\* _on_confirmed (417-420): the OK button, which is not disabled, is
\* pressed.
OnConfirmed ==
  /\ ~ok_disabled
  /\ NotifiedAndClosed

\* _on_tree_item_activated (367-370), connected to item_activated and to
\* nothing_selected (lines 94 and 96).
OnTreeItemActivated ==
  /\ NotifiedAndClosed

SessionInit == MenuInit(SessionRegistries)

SessionNext == \/ \E p_filter \in OpenFilters : ApplyFilter(p_filter)
               \/ OnContextSensitiveToggled
               \/ \E p_new_text \in FilterTexts : OnFilterTextChanged(p_new_text)
               \/ \E node \in 1..Len(_tree_view) : SelectItem(node)
               \/ \E node \in 1..Len(_tree_view) : OnTreeButtonClicked(node)
               \/ OnCloseRequested
               \/ OnConfirmed
               \/ OnTreeItemActivated
               \/ \E items \in SessionRegistries : ScriptChanged(items)
               \/ \E p_action_name \in ExternalPaths : ExternalFavoriteChange(p_action_name)

SpecSession == SessionInit /\ [][SessionNext]_vars

\* ------------------------------------------------- typing search texts

\* The characters typed: a space, a lower-case and an upper-case letter.
TypedChars == { Space, "a", "B" }

\* The search texts of at most MaxText characters.
SearchTexts == UNION { [1..n -> TypedChars] : n \in 0..MaxText }

\* A menu over a script without actions, where only the search box matters.
KeywordsInit == MenuInit({ <<>> }) /\ ~project_settings.exists

KeywordsNext == \/ \E p_filter \in OpenFilters : ApplyFilter(p_filter)
                \/ \E p_new_text \in SearchTexts : OnFilterTextChanged(p_new_text)
                \/ OnCloseRequested

SpecKeywords == KeywordsInit /\ [][KeywordsNext]_vars

\* ------------------------------------------------------- icons of a menu

\* Actions for the icons: one of category Integer, one of an unnamed
\* category whose own icon the theme does not have.
ItemInteger == Item(IntegerText \o <<"/","i">>, <<"i">>, TRUE, TRUE)
ItemBroken == [Item(<<"M","/","q">>, <<"q">>, TRUE, FALSE) EXCEPT !.icon = UnknownIconName]

IconRegistries == { <<>>, << ItemInteger >>, << ItemBroken, ItemSub >>, << ItemInteger, ItemBroken, ItemSub >> }

IconsInit == MenuInit(IconRegistries)

SpecIcons == IconsInit /\ [][Next]_vars

\* ------------------------------------------------- graph node context menu

\* The variables of the action menu.
menu_vars == << registry, _action_db, _filter, _selection, project_settings, _tree_view, selected, ok_disabled, visible, last_op, clicks, _filters_text_box, external, toolbar_vars, emitted >>

GraphNodes == 1..MaxGraphNodes

\* The mouse buttons of an InputEventMouseButton, pressed or released.
MouseEvents == { [pressed |-> pr, double_click |-> dc, button_index |-> b] : pr \in BOOLEAN, dc \in BOOLEAN, b \in { "left", "right" } }

\* OrchestratorGraphEdit::clear_selection: no node stays selected.
clear_selection(g) == [g EXCEPT !.selected = {}]

\* GraphElement::set_selected(true) on the node.
set_node_selected(g, node) == [g EXCEPT !.selected = @ \cup { node }]

\* Mutant: the selection is cleared whether or not the node is selected.
ShowContextMenu_always_clears(g, node) == [set_node_selected(clear_selection(g), node) EXCEPT !.context_menu = node]

\* _show_context_menu (427-437 and the popup that follows): a node that is
\* not selected becomes the only selected one; the menu of the node opens.
ShowContextMenu(g, node) == LET g1 == IF node \notin g.selected THEN set_node_selected(clear_selection(g), node) ELSE g
 IN [g1 EXCEPT !.context_menu = node]

\* _gui_input (96-120): only a pressed button is looked at; a left double
\* click asks the graph for focus and returns; the right button shows the
\* context menu; anything else is left to the graph.
GuiInput(node, p_event) ==
  /\ graph' = IF ~p_event.pressed THEN graph
              ELSE IF p_event.double_click /\ p_event.button_index = "left" THEN graph
              ELSE IF p_event.button_index = "right" THEN ShowContextMenu(graph, node)
              ELSE graph
  /\ UNCHANGED << menu_vars, orchestrator_settings, graph_node >>

\* The graph editor changes the selection of a node (a click or a box
\* selection outside the node's own handler); an open context menu closes.
GraphSelects(node) ==
  /\ graph' = [graph EXCEPT !.selected = IF node \in @ THEN @ \ { node } ELSE @ \cup { node }, !.context_menu = 0]
  /\ UNCHANGED << menu_vars, orchestrator_settings, graph_node >>

GraphInit == MenuInit({ <<>> }) /\ ~project_settings.exists

GraphNext == \/ \E node \in GraphNodes, p_event \in MouseEvents : GuiInput(node, p_event)
             \/ \E node \in GraphNodes : GraphSelects(node)

SpecGraph == GraphInit /\ [][GraphNext]_vars

\* ------------------------------------------- opacity of a node's ports

\* The alpha of a port colour, in percent: a dimmed and an opaque port.
Opacities == { 30, 100 }

\* Color(): the colour a port getter returns for a port that is not there.
DefaultColor == [a |-> 100]

\* The slots of a node hold its pins row by row from the top: row i has
\* input pin i on its left while the node has one, and output pin i on its
\* right while the node has one, so a port and its slot share the index.
get_input_port_count(node) == Len(node.left)
get_output_port_count(node) == Len(node.right)
is_slot_enabled_left(node, i) == i \in 1..Len(node.left)
is_slot_enabled_right(node, i) == i \in 1..Len(node.right)
get_input_port_color(node, i) == IF i \in 1..Len(node.left) THEN [a |-> node.left[i]] ELSE DefaultColor
get_output_port_color(node, i) == IF i \in 1..Len(node.right) THEN [a |-> node.right[i]] ELSE DefaultColor

\* UtilityFunctions::is_equal_approx on the alphas in use.
is_equal_approx(a, b) == a = b

\* set_inputs_for_accept_opacity (132-147): rejected are the input pins
\* whose can_accept(p_other) is false.
set_inputs_for_accept_opacity(node, p_opacity, rejected) == [node EXCEPT !.left = [i \in 1..get_input_port_count(node) |-> IF is_slot_enabled_left(node, i) /\ i \in rejected THEN p_opacity ELSE node.left[i]]]

\* set_outputs_for_accept_opacity (149-164): rejected are the output pins
\* p_other cannot accept.
set_outputs_for_accept_opacity(node, p_opacity, rejected) == [node EXCEPT !.right = [i \in 1..get_output_port_count(node) |-> IF is_slot_enabled_right(node, i) /\ i \in rejected THEN p_opacity ELSE node.right[i]]]

\* set_all_inputs_opacity (166-177)
set_all_inputs_opacity(node, p_opacity) == [node EXCEPT !.left = [i \in 1..get_input_port_count(node) |-> IF is_slot_enabled_left(node, i) THEN p_opacity ELSE node.left[i]]]

\* set_all_outputs_opacity (179-190)
set_all_outputs_opacity(node, p_opacity) == [node EXCEPT !.right = [i \in 1..get_output_port_count(node) |-> IF is_slot_enabled_right(node, i) THEN p_opacity ELSE node.right[i]]]

\* get_inputs_with_opacity (192-205)
get_inputs_with_opacity(node, p_opacity) == Cardinality({ i \in 1..get_input_port_count(node) : is_slot_enabled_left(node, i) /\ is_equal_approx(get_input_port_color(node, i).a, p_opacity) })

\* get_outputs_with_opacity (207-220): the loop runs over the input ports.
get_outputs_with_opacity(node, p_opacity) == Cardinality({ i \in 1..get_input_port_count(node) : is_slot_enabled_right(node, i) /\ is_equal_approx(get_output_port_color(node, i).a, p_opacity) })

\* A drag over the graph dims the pins that cannot accept the dragged pin.
SetInputsForAcceptOpacity(p_opacity, rejected) ==
  /\ graph_node' = [set_inputs_for_accept_opacity(graph_node, p_opacity, rejected) EXCEPT !.asked = NotAsked]
  /\ UNCHANGED << menu_vars, orchestrator_settings, graph >>

SetOutputsForAcceptOpacity(p_opacity, rejected) ==
  /\ graph_node' = [set_outputs_for_accept_opacity(graph_node, p_opacity, rejected) EXCEPT !.asked = NotAsked]
  /\ UNCHANGED << menu_vars, orchestrator_settings, graph >>

SetAllInputsOpacity(p_opacity) ==
  /\ graph_node' = [set_all_inputs_opacity(graph_node, p_opacity) EXCEPT !.asked = NotAsked]
  /\ UNCHANGED << menu_vars, orchestrator_settings, graph >>

SetAllOutputsOpacity(p_opacity) ==
  /\ graph_node' = [set_all_outputs_opacity(graph_node, p_opacity) EXCEPT !.asked = NotAsked]
  /\ UNCHANGED << menu_vars, orchestrator_settings, graph >>

GetInputsWithOpacity(p_opacity) ==
  /\ graph_node' = [graph_node EXCEPT !.asked = [op |-> "get_inputs_with_opacity", opacity |-> p_opacity, result |-> get_inputs_with_opacity(graph_node, p_opacity)]]
  /\ UNCHANGED << menu_vars, orchestrator_settings, graph >>

GetOutputsWithOpacity(p_opacity) ==
  /\ graph_node' = [graph_node EXCEPT !.asked = [op |-> "get_outputs_with_opacity", opacity |-> p_opacity, result |-> get_outputs_with_opacity(graph_node, p_opacity)]]
  /\ UNCHANGED << menu_vars, orchestrator_settings, graph >>

\* The nodes of a graph: up to MaxPorts input and output ports, all opaque
\* when the node is made.
PortsInit == /\ MenuStart({ <<>> })
             /\ ~project_settings.exists
             /\ orchestrator_settings = [constructed |-> FALSE, keys |-> [key \in SettingKeys |-> NoEntry], cleared |-> {}]
             /\ graph = [selected |-> {}, context_menu |-> 0]
             /\ \E inputs \in 0..MaxPorts, outputs \in 0..MaxPorts : graph_node = [left |-> [i \in 1..inputs |-> 100], right |-> [i \in 1..outputs |-> 100], asked |-> NotAsked]

PortsNext == \/ \E p_opacity \in Opacities, rejected \in SUBSET (1..MaxPorts) : SetInputsForAcceptOpacity(p_opacity, rejected)
             \/ \E p_opacity \in Opacities, rejected \in SUBSET (1..MaxPorts) : SetOutputsForAcceptOpacity(p_opacity, rejected)
             \/ \E p_opacity \in Opacities : SetAllInputsOpacity(p_opacity)
             \/ \E p_opacity \in Opacities : SetAllOutputsOpacity(p_opacity)
             \/ \E p_opacity \in Opacities : GetInputsWithOpacity(p_opacity)
             \/ \E p_opacity \in Opacities : GetOutputsWithOpacity(p_opacity)

SpecPorts == PortsInit /\ [][PortsNext]_vars

\* ---------------------------------------- construction of the settings

\* The values a user gives a setting.
CustomValue == "custom"
UserValues == { CustomValue, "other" }

\* The entries a project file can hold for a key before the plugin is
\* constructed: none, or a stored value (a value equal to the default is
\* not written to the file, so a stored value of a known key differs).
StoredEntries == { NoEntry } \cup { [NoEntry EXCEPT !.exists = TRUE, !.value = value] : value \in UserValues }

\* The project settings found at start-up.
InitialStores == { store \in [SettingKeys -> StoredEntries] : store[ForeignKey].exists /\ store[ForeignKey].value = CustomValue }

\* OrchestratorSettings::OrchestratorSettings (35-41).
Construct ==
  /\ ~orchestrator_settings.constructed
  /\ orchestrator_settings' = [constructed |-> TRUE, keys |-> UpdateDefaultSettings(InitializeSettings(orchestrator_settings.keys, RegisteredSettings), RemovedSettings),
                               cleared |-> { key \in SettingKeys : orchestrator_settings.keys[key].exists /\ \E k \in 1..Len(RemovedSettings) : key = KeyOf(RemovedSettings[k].name) }]
  /\ UNCHANGED << menu_vars, graph, graph_node >>

\* The user changes a registered setting in the project settings dialog.
UserSets(k, value) ==
  /\ orchestrator_settings.constructed
  /\ orchestrator_settings' = [orchestrator_settings EXCEPT !.keys = set_setting(@, KeyOf(RegisteredSettings[k].name), value)]
  /\ UNCHANGED << menu_vars, graph, graph_node >>

\* The editor is closed and started again (comment at lines 199-200 and
\* 213-214): the project file keeps the values that differ from their
\* initial value, and nothing else of an entry.
Restart ==
  /\ orchestrator_settings.constructed
  /\ orchestrator_settings' = [constructed |-> FALSE, cleared |-> {}, keys |-> [key \in SettingKeys |-> LET entry == orchestrator_settings.keys[key] IN IF entry.exists /\ entry.value # entry.initial THEN [NoEntry EXCEPT !.exists = TRUE, !.value = entry.value] ELSE NoEntry]]
  /\ UNCHANGED << menu_vars, graph, graph_node >>

SettingsInit == /\ MenuStart({ <<>> })
                /\ ~project_settings.exists
                /\ graph = [selected |-> {}, context_menu |-> 0]
                /\ graph_node = [left |-> <<>>, right |-> <<>>, asked |-> NotAsked]
                /\ orchestrator_settings \in { [constructed |-> FALSE, keys |-> store, cleared |-> {}] : store \in InitialStores }

SettingsNext == \/ Construct
                \/ \E k \in 1..Len(RegisteredSettings) : \E value \in UserValues \cup { RegisteredSettings[k].value } : UserSets(k, value)
                \/ Restart

SpecSettings == SettingsInit /\ [][SettingsNext]_vars

\* ------------------------------------------- toggling the tree's buttons

\* The user clicks the collapse button: its pressed state flips and
\* toggled runs _on_collapse_tree.
CollapseToggled ==
  /\ visible
  /\ SetPanel(SetCollapsePressed(Panel, ~_collapse))
  /\ last_op' = "none"
  /\ clicks' = NoClicks
  /\ UNCHANGED << registry, _action_db, _filter, project_settings, visible, _filters_text_box, external, plugin_vars, emitted >>

\* The user clicks the expand button: its pressed state flips and toggled
\* runs _on_expand_tree.
ExpandToggled ==
  /\ visible
  /\ SetPanel(SetExpandPressed(Panel, ~_expand))
  /\ last_op' = "none"
  /\ clicks' = NoClicks
  /\ UNCHANGED << registry, _action_db, _filter, project_settings, visible, _filters_text_box, external, plugin_vars, emitted >>

\* The registries of the sessions in which the buttons are used.
ToolbarRegistries == { << ItemAdd >>, << ItemAdd, ItemLeaf >> }

ToolbarInit == MenuInit(ToolbarRegistries)

ToolbarNext == \/ \E p_filter \in OpenFilters : ApplyFilter(p_filter)
               \/ OnContextSensitiveToggled
               \/ \E p_new_text \in FilterTexts : OnFilterTextChanged(p_new_text)
               \/ \E node \in 1..Len(_tree_view) : SelectItem(node)
               \/ \E node \in 1..Len(_tree_view) : OnTreeButtonClicked(node)
               \/ CollapseToggled
               \/ ExpandToggled
               \/ OnCloseRequested

SpecToolbar == ToolbarInit /\ [][ToolbarNext]_vars

\* ------------------------------------------------------ reading the tree

Nodes == 1..Len(_tree_view)

ChildCount(tree, n) == Len(Children(tree, n))

\* The texts on the way from the top level down to n, n included.
RECURSIVE PathTexts(_, _)
PathTexts(tree, n) == IF n = 0 THEN <<>> ELSE Append(PathTexts(tree, tree[n].parent), tree[n].text)

\* Whether n lies below a.
RECURSIVE IsBelow(_, _, _)
IsBelow(tree, n, a) == IF n = 0 THEN FALSE ELSE tree[n].parent = a \/ IsBelow(tree, tree[n].parent, a)

\* The node made for an item at line 207 (it carries the favorite button),
\* as opposed to the entry made for it under Favorites at line 218.
IsActionNode(tree, n) == tree[n].has_item /\ tree[n].favorite # "unset"
IsFavoriteEntry(tree, n) == tree[n].has_item /\ tree[n].favorite = "unset"
ActionNodesOf(tree, item) == { n \in 1..Len(tree) : IsActionNode(tree, n) /\ tree[n].item = item }

\* The Favorites node of the displayed tree, 0 when there is none: it is
\* made first, so it is the first node when it survives the pruning.
FavoritesNode(tree, ps) == IF get_action_favorites(ps) # <<>> /\ Len(tree) > 0 /\ tree[1].parent = 0 /\ ~tree[1].has_item /\ tree[1].text = FavoritesText THEN 1 ELSE 0

\* Whether the last step regenerated the tree.
Regenerated == last_op \in { "generate", "keywords" }

\* String join.
RECURSIVE Join(_, _)
Join(parts, sep) == IF parts = <<>> THEN <<>> ELSE IF Len(parts) = 1 THEN parts[1] ELSE parts[1] \o <<sep>> \o Join(Tail(parts), sep)

\* The segments of a category that become nodes: all but the last.
Folder(item) == LET categories == split(item.category, Slash) IN SubSeq(categories, 1, Len(categories) - 1)

LowerAll(parts) == [k \in 1..Len(parts) |-> to_lower(parts[k])]

\* The number of leading segments two items share, ignoring case.
SharedSegments(a, b) == LET fa == LowerAll(Folder(a))
     fb == LowerAll(Folder(b))
     m == IF Len(fa) < Len(fb) THEN Len(fa) ELSE Len(fb)
 IN Cardinality({ k \in 1..m : SubSeq(fa, 1, k) = SubSeq(fb, 1, k) })

\* ----------------------------------------------------------------- claims

\* C1: after every generation pass the displayed tree holds no node that
\* has no children and no handler, whatever the registry, the filter, the
\* favorites and the stored selection; nested empty category nodes and an
\* empty Favorites node are gone as well.
C1_NoEmptyNode == \A n \in Nodes : ChildCount(_tree_view, n) > 0 \/ _tree_view[n].handler

\* C1 witness: a pass that had made the chain M > V for an item without a
\* handler and a Favorites node without entries, all of them pruned.
C1_Witness == /\ Regenerated
              /\ ItemCat \in Range(_action_db)
              /\ get_action_favorites(project_settings) # <<>>
              /\ FavoritesNode(_tree_view, project_settings) = 0
              /\ \A n \in Nodes : _tree_view[n].item # ItemCat /\ to_lower(_tree_view[n].text) # <<"m">>

\* C7: a node is selectable exactly when it is an action leaf (a node made
\* for an item) that carries a handler; the nodes made for category
\* segments and the Favorites node are not selectable.
C7_SelectableIffHandler == \A n \in Nodes : (_tree_view[n].selectable <=> (_tree_view[n].has_item /\ _tree_view[n].item.handler)) /\ (~_tree_view[n].has_item => ~_tree_view[n].selectable)

\* C7 witness: a tree that shows a category node, an item without a handler
\* (kept for the action below it) and an action with a handler.
C7_Witness == /\ Regenerated
              /\ \E n \in Nodes : ~_tree_view[n].has_item
              /\ \E n \in Nodes : _tree_view[n].has_item /\ ~_tree_view[n].item.handler
              /\ \E n \in Nodes : _tree_view[n].has_item /\ _tree_view[n].item.handler

\* C9: when the action db has no items the generated tree is the hidden
\* root alone, also when the persisted favorites are not empty.
C9_EmptyRegistryEmptyTree == _action_db = <<>> => _tree_view = <<>>

\* C9 witness: a pass over an empty registry with a favorite stored.
C9_Witness == /\ Regenerated
              /\ registry = <<>>
              /\ get_action_favorites(project_settings) # <<>>
              /\ _tree_view = <<>>

\* The nodes whose path from the top level spells the segments prefix,
\* ignoring case.
NodesAt(prefix) == { n \in Nodes : LowerAll(PathTexts(_tree_view, n)) = prefix }

\* Whether an action node of item lies below n.
Holds(n, item) == \E leaf \in ActionNodesOf(_tree_view, item) : IsBelow(_tree_view, leaf, n)

SharedPrefix(a, b, k) == SubSeq(LowerAll(Folder(a)), 1, k)

Favorites == get_action_favorites(project_settings)

\* The entries of item below the Favorites node.
FavoriteEntriesOf(item) == LET f == FavoritesNode(_tree_view, project_settings)
 IN { n \in Nodes : f # 0 /\ _tree_view[n].parent = f /\ IsFavoriteEntry(_tree_view, n) /\ _tree_view[n].item = item }

\* "<Math/Vector> Dot": the texts of the ancestors of the action node,
\* joined with "/", then the display text.
FavoriteTextAt(leaf, item) == <<"<">> \o Join(PathTexts(_tree_view, _tree_view[leaf].parent), Slash) \o <<">", Space>> \o item.text

HasFavoriteLeaf(item) == \E leaf \in ActionNodesOf(_tree_view, item) : \E n \in FavoriteEntriesOf(item) : _tree_view[n].text = FavoriteTextAt(leaf, item)

\* C3 as stated: every item of the filtered list whose category is a stored
\* favorite has a leaf under Favorites that reads "<ancestor path> text".
C3_Original == \A item \in Range(_action_db) : has(Favorites, item.category) => HasFavoriteLeaf(item)

\* C3 (amended): every item of the filtered list that carries a handler and
\* whose category is a stored favorite has a leaf under the top-level
\* Favorites node, and the text of that leaf is "<" + the texts of the
\* ancestors of its action node joined with "/" + "> " + its display text.
C3_FavoriteLeafText == \A item \in Range(_action_db) : (item.handler /\ has(Favorites, item.category)) => HasFavoriteLeaf(item)

\* C3 witness: the nested action m/V/s is a favorite and is listed under
\* Favorites.
C3_Witness == Regenerated /\ ItemSub \in Range(_action_db) /\ has(Favorites, ItemSub.category) /\ HasFavoriteLeaf(ItemSub)

\* C4: the children of the Favorites node are exactly the filtered items
\* whose category is a stored favorite, one entry each, and nothing else is
\* placed under it (no action of a category "Favorites/...").
C4_FavoritesAreView ==
  LET f == FavoritesNode(_tree_view, project_settings)
  IN /\ \A n \in Nodes : (f # 0 /\ _tree_view[n].parent = f) => (IsFavoriteEntry(_tree_view, n) /\ has(Favorites, _tree_view[n].item.category) /\ _tree_view[n].item \in Range(_action_db))
     /\ \A item \in Range(_action_db) : has(Favorites, item.category) => Cardinality(FavoriteEntriesOf(item)) = 1

\* The items shown by action nodes that are not below the Favorites node.
LeavesOutsideFavorites == LET f == FavoritesNode(_tree_view, project_settings)
 IN { _tree_view[n].item : n \in { k \in Nodes : _tree_view[k].has_item /\ (f = 0 \/ ~IsBelow(_tree_view, k, f)) } }

ShownItems == { _tree_view[n].item : n \in { k \in Nodes : IsActionNode(_tree_view, k) } }

C6_ToggleTwice == clicks.n = 2 => Range(Favorites) = clicks.original

\* C6 witness: a favorite was removed by the first click and added again by
\* the second.
C6_Witness == clicks.n = 2 /\ clicks.category \in clicks.original /\ Cardinality(clicks.original) = 2

\* The action node of the category path, if the tree (after the step) has
\* one, is the selected item.
SelectionKept(path, tree, sel) == \A n \in 1..Len(tree) : (IsActionNode(tree, n) /\ tree[n].item.category = path) => sel = n

\* The selected item, if the tree (after the step) has a leaf of the
\* category path, is a leaf of that path: its action node or its entry
\* under Favorites.
SelectionShown(path, tree, sel) == (\E n \in 1..Len(tree) : IsActionNode(tree, n) /\ tree[n].item.category = path) => (sel # 0 /\ tree[sel].has_item /\ tree[sel].item.category = path)

\* C8 as stated: after any regeneration, if a leaf of the previously
\* selected category path survives, the selected item of the tree is a leaf
\* of that path.
C8_Original == [][ last_op' \in { "generate", "keywords" } => SelectionShown(_selection, _tree_view', selected') ]_vars

\* C8 (amended): after a regeneration by apply_filter, by the context
\* sensitive toggle, by a favorite toggle or by a filter text without
\* keywords, a surviving leaf of the previously selected category path is
\* the selected item (it is selected while the tree is built); after a
\* filter text with keywords the selected item is instead the first leaf of
\* the tree (first children from the top), or none in an empty tree.
C8_SelectionRestored == [][ /\ last_op' = "generate" => SelectionKept(_selection, _tree_view', selected')
                            /\ last_op' = "keywords" => selected' = FirstLeafFrom(_tree_view', get_first_child(_tree_view', 0)) ]_vars

\* C8 witness: a regeneration without keywords has selected the leaf of the
\* stored selection.
C8_Witness == last_op = "generate" /\ selected # 0 /\ IsActionNode(_tree_view, selected) /\ _tree_view[selected].item.category = _selection

\* The tree a generation pass builds from nothing but the registry, the
\* filter, the favorites and the stored selection.
Expected == GenerateFilteredActions([tree |-> <<>>, selected |-> 0, ok_disabled |-> ok_disabled, selection |-> _selection], load(registry, _filter), project_settings)

\* C10 as stated: the tree shown after a regeneration, selected item
\* included, is determined by the registry, the filter, the favorites and
\* the stored selection alone.
C10_Original == Regenerated => (_tree_view = Expected.tree /\ selected = Expected.selected)

\* C10 (amended): the nodes of the tree shown after a regeneration (texts,
\* nesting, order, handlers, favorite markers) are determined by the
\* registry, the filter and the favorites alone, with no node left over from
\* an earlier tree; the selected item is determined by the stored selection,
\* except after a filter text with keywords, when it is the first leaf.
C10_TreeReplaced == Regenerated => /\ _tree_view = Expected.tree
                                   /\ last_op = "generate" => selected = Expected.selected
                                   /\ last_op = "keywords" => selected = FirstLeafFrom(_tree_view, get_first_child(_tree_view, 0))

\* C10 witness: a keystroke has replaced the tree by one that shows fewer
\* items than the registry holds.
C10_Witness == last_op = "keywords" /\ _tree_view # <<>> /\ Len(_action_db) < Len(registry)

\* The favorite markers of the action nodes are those of the list favs.
MarkersMatch(tree, favs) == \A n \in 1..Len(tree) : IsActionNode(tree, n) => (tree[n].favorite = "yes" <=> has(favs, tree[n].item.category))

\* The entries under Favorites are those of the shown actions (carrying a
\* handler) that the list favs names.
EntriesMatch(tree, favs) == { tree[n].item : n \in { k \in 1..Len(tree) : IsFavoriteEntry(tree, k) } } = { item \in Range(_action_db) : item.handler /\ has(favs, item.category) }

\* C11: every generation pass reads the stored favorites at that moment:
\* the tree of a pass marks exactly the actions the store names then and
\* lists exactly them under Favorites, whether the store was last changed by
\* the menu or outside it.
C11_FavoritesReadFresh == Regenerated => (MarkersMatch(_tree_view, project_settings.list) /\ EntriesMatch(_tree_view, project_settings.list))

\* C11 witness: a pass after a change made outside the menu shows the
\* action added there as a favorite.
C11_Witness == Regenerated /\ external = "shown" /\ has(project_settings.list, ItemLeaf.category) /\ (\E n \in Nodes : IsActionNode(_tree_view, n) /\ _tree_view[n].item = ItemLeaf /\ _tree_view[n].favorite = "yes") /\ (\E n \in Nodes : IsFavoriteEntry(_tree_view, n) /\ _tree_view[n].item = ItemLeaf)

\* The category paths the favorite calls are made with.
FavoritePaths == { item.category : item \in Universe }

\* C12: in every reachable state of the store, add_action_favorite(p)
\* returns with p among the stored favorites and remove_action_favorite(p)
\* with p not among them, and the list saved to the project file is the
\* list in memory, before and after each call.
C12_PersistImmediately == /\ project_settings.saved = project_settings.list
                          /\ \A p \in FavoritePaths : /\ has(get_action_favorites(add_action_favorite(project_settings, p)), p)
                                                      /\ ~has(get_action_favorites(remove_action_favorite(project_settings, p)), p)
                                                      /\ add_action_favorite(project_settings, p).saved = add_action_favorite(project_settings, p).list
                                                      /\ remove_action_favorite(project_settings, p).saved = remove_action_favorite(project_settings, p).list

\* C12 witness: a click has added a second favorite and the saved list
\* holds it.
C12_Witness == clicks.n = 1 /\ has(project_settings.list, clicks.category) /\ Len(project_settings.list) = 2 /\ project_settings.saved = project_settings.list

\* C13: a script change (functions_changed, variables_changed or
\* signals_changed) leaves the action db without items; the db receives
\* items again only by a load from the registry of that moment; and the tree
\* of every later generation pass shows only actions of the current
\* registry.
C13_RegistryCleared == [][ /\ (last_op' = "clear" => _action_db' = <<>>)
                           /\ ((_action_db' # _action_db /\ last_op' # "clear") => _action_db' = load(registry', _filter'))
                           /\ (last_op' \in { "generate", "keywords" } => ShownItems' \subseteq Range(registry')) ]_vars

\* C13 witness: the script lost an action the open menu still lists, and
\* the db was cleared.
C13_Witness == last_op = "clear" /\ visible /\ ItemAdd \in ShownItems /\ ItemAdd \notin Range(registry) /\ _action_db = <<>>

\* The menu a session starts from when nothing of an earlier one is left.
FreshMenu == [tree |-> <<>>, selected |-> 0, ok_disabled |-> TRUE, selection |-> <<>>]

\* The step that opens a session shows the tree generated from its filter,
\* the registry and the favorites alone.
OpensFresh == (~visible /\ visible') => LET g == GenerateFilteredActions(FreshMenu, load(registry', _filter'), project_settings') IN _tree_view' = g.tree /\ selected' = g.selected /\ _selection' = g.selection

NoDuplicates(seq) == \A a, b \in 1..Len(seq) : a # b => seq[a] # seq[b]

\* Whether the text is empty or made of spaces only.
IsBlank(text) == \A k \in 1..Len(text) : text[k] = Space

\* C15: after a filter text change the keywords are lower-case, each one is
\* non-empty and occurs once, and a text that is empty or only spaces gives
\* no keyword.
C15_KeywordsOrderedSet == (visible /\ Regenerated /\ _filter.keywords = Keywords(_filters_text_box)) =>
                            /\ \A k \in 1..Len(_filter.keywords) : _filter.keywords[k] # <<>> /\ _filter.keywords[k] = to_lower(_filter.keywords[k])
                            /\ NoDuplicates(_filter.keywords)
                            /\ (IsBlank(_filters_text_box) => _filter.keywords = <<>>)

\* A node made for a category segment (the Favorites node is not one).
IsCategoryNode(tree, n) == ~tree[n].has_item /\ tree[n].icon # NoIcon

\* C16 as stated: no node of the generated tree displays the not-found
\* icon; a category node Integer has the int icon, any other the icon of
\* its segment or, when that is not found, the Object icon.
C16_Original == Regenerated => \A n \in Nodes : /\ _tree_view[n].icon # broken
                                                /\ IsCategoryNode(_tree_view, n) => _tree_view[n].icon = (IF _tree_view[n].text = IntegerText THEN IntIcon ELSE IF _tree_view[n].text \in ThemeIcons THEN _tree_view[n].text ELSE ObjectIcon)

\* C16 (amended): a category node never displays the not-found icon: the
\* segment Integer has the int icon, any other the icon of its segment or,
\* when that is not found, the Object icon.  An action leaf displays the
\* icon of its action or, when that is not found, the not-found icon; the
\* Favorites node has no icon.  Generation completes in both cases.
C16_IconFallback == Regenerated => \A n \in Nodes : /\ IsCategoryNode(_tree_view, n) => (_tree_view[n].icon # broken /\ _tree_view[n].icon = (IF _tree_view[n].text = IntegerText THEN IntIcon ELSE IF _tree_view[n].text \in ThemeIcons THEN _tree_view[n].text ELSE ObjectIcon))
                                                    /\ _tree_view[n].has_item => _tree_view[n].icon = (IF _tree_view[n].item.icon \in ThemeIcons THEN _tree_view[n].item.icon ELSE broken)
                                                    /\ (~_tree_view[n].has_item /\ ~IsCategoryNode(_tree_view, n)) => (n = FavoritesNode(_tree_view, project_settings))

\* C16 witness: a tree with the int icon on Integer, a segment icon on V,
\* the Object icon on a segment without icon, and an action leaf whose icon
\* is not found.
C16_Witness == /\ Regenerated
               /\ \E n \in Nodes : IsCategoryNode(_tree_view, n) /\ _tree_view[n].text = IntegerText /\ _tree_view[n].icon = IntIcon
               /\ \E n \in Nodes : IsCategoryNode(_tree_view, n) /\ _tree_view[n].text = <<"V">> /\ _tree_view[n].icon = <<"V">>
               /\ \E n \in Nodes : IsCategoryNode(_tree_view, n) /\ _tree_view[n].text = <<"M">> /\ _tree_view[n].icon = ObjectIcon
               /\ \E n \in Nodes : _tree_view[n].has_item /\ _tree_view[n].icon = broken

\* C17: a step that runs a generation pass leaves the registry unchanged;
\* it leaves the stored selection unchanged (unless the handler itself goes
\* on to select the first leaf after a keyword change), the favorites
\* unchanged unless the handler is the favorite button, whose toggle is the
\* only change, and the filter as the handler set it before the pass: a
\* favorite toggle leaves keywords and flag as they were.
C17_GenerationPure == [][ last_op' \in { "generate", "keywords" } =>
                            /\ registry' = registry
                            /\ (last_op' = "generate" => _selection' = _selection)
                            /\ (clicks'.n = 0 => project_settings' = project_settings)
                            /\ (clicks'.n > 0 => (_filter' = _filter /\ \E n \in Nodes : project_settings' = ToggleFavorite(project_settings, _tree_view[n])))
                            /\ _action_db' = load(registry, _filter') ]_vars

\* C17 witness: a pass ran with a stored selection, stored favorites and a
\* context-sensitive filter, and all of them are in place.
C17_Witness == last_op = "generate" /\ clicks.n = 0 /\ _selection = ItemAdd.category /\ selected # 0 /\ project_settings.list = << ItemLeaf.category >> /\ _filter.context_sensitive

\* C18: while the popup is shown, the OK button is enabled only if the tree
\* has a selected item.
C18_OkOnlyWhenSelected == (visible /\ ~ok_disabled) => selected # 0

\* C19: a step that shows the context menu of a node that was not selected
\* leaves that node as the only selected one; of a node that was selected,
\* leaves the selection as it was; either way the node is selected once its
\* menu is shown.
C19_ContextMenuSelection == [][ graph'.context_menu # 0 =>
                                  /\ (graph'.context_menu \notin graph.selected => graph'.selected = { graph'.context_menu })
                                  /\ (graph'.context_menu \in graph.selected => graph'.selected = graph.selected)
                                  /\ graph'.context_menu \in graph'.selected ]_vars

\* C19 witness: the menu of a selected node is shown while other nodes stay
\* selected with it.
C19_Witness == graph.context_menu # 0 /\ graph.context_menu \in graph.selected /\ Cardinality(graph.selected) = 3

\* C20: the construction of OrchestratorSettings leaves every registered
\* setting in the project settings under orchestrator/<name> with its
\* default as initial value; a key that had a value keeps it, and the
\* default becomes the value only of a key that did not exist.
C20_DefaultsOnlyForMissing == [][ (~orchestrator_settings.constructed /\ orchestrator_settings'.constructed) =>
                                    \A k \in 1..Len(RegisteredSettings) : LET key == KeyOf(RegisteredSettings[k].name)
                                                                              before == orchestrator_settings.keys[key]
                                                                              after == orchestrator_settings'.keys[key]
                                                                          IN /\ after.exists
                                                                             /\ after.initial = RegisteredSettings[k].value
                                                                             /\ after.value = IF before.exists THEN before.value ELSE RegisteredSettings[k].value ]_vars

\* C20 witness: after the construction one registered setting holds the
\* value stored before and another, which was missing, its default.
C20_Witness == /\ orchestrator_settings.constructed
               /\ orchestrator_settings.keys[KeyOf("settings/default_type")].value = CustomValue
               /\ orchestrator_settings.keys[KeyOf("settings/default_type")].initial = "Node"
               /\ orchestrator_settings.keys[KeyOf("settings/log_level")].value = "INFO"
               /\ orchestrator_settings.keys[KeyOf("settings/log_level")].initial = "INFO"

\* The keys of the removed (v1) settings and of the registered settings.
RemovedKeys == { KeyOf(RemovedSettings[k].name) : k \in 1..Len(RemovedSettings) }
RegisteredKeys == { KeyOf(RegisteredSettings[k].name) : k \in 1..Len(RegisteredSettings) }

\* C21: once OrchestratorSettings is constructed no removed (v1) key exists
\* in the project settings, whatever was stored before; the construction
\* leaves every registered key in existence and leaves the action-favorites
\* key and the keys of others as they were.
C21_DeprecatedRemoved == /\ [](orchestrator_settings.constructed => \A key \in RemovedKeys : ~orchestrator_settings.keys[key].exists)
                         /\ [][ (~orchestrator_settings.constructed /\ orchestrator_settings'.constructed) => ((\A key \in RegisteredKeys : orchestrator_settings'.keys[key].exists) /\ (\A key \in { FavoritesKey, ForeignKey } : orchestrator_settings'.keys[key] = orchestrator_settings.keys[key])) ]_vars

\* C21 witness: the construction cleared every removed key, all of which
\* were stored, while the stored favorites and a stored value of a
\* registered setting are in place.
C21_Witness == /\ orchestrator_settings.constructed
               /\ orchestrator_settings.cleared = RemovedKeys
               /\ orchestrator_settings.keys[FavoritesKey].exists
               /\ orchestrator_settings.keys[FavoritesKey].value = CustomValue
               /\ orchestrator_settings.keys[KeyOf("ui/node_colors/flow_control")].value = CustomValue

\* C22: in a generated tree a node that carries an action has no children,
\* and every child of the Favorites node is a favorite entry: no action was
\* attached below an action leaf or below Favorites while its category was
\* walked.
C22_LeafHasNoChildren == Regenerated => \A n \in Nodes : (_tree_view[n].has_item => ChildCount(_tree_view, n) = 0) /\ ((_tree_view[n].parent # 0 /\ _tree_view[n].parent = FavoritesNode(_tree_view, project_settings)) => IsFavoriteEntry(_tree_view, n))

C24_CollapseExpandExclusive == /\ [](_collapse # _expand)
                               /\ [][ (~visible /\ visible') => (_expand' /\ ~_collapse') ]_vars
                               /\ [](_collapse => \A n \in Nodes : _tree_view[n].parent = 0 => _tree_view[n].collapsed)

\* The project settings whose file still holds an older list: what
\* ProjectSettings::save would change.
Unsaved(ps) == [ps EXCEPT !.saved = <<>>]

\* C25: the stored favorites never hold a category path twice, and from
\* every reachable store add_action_favorite and remove_action_favorite
\* return a list without duplicates; adding a path that is present changes
\* nothing, and removing a path that is absent, or any path while the key
\* does not exist, changes nothing and does not save.
C25_NoDuplicateFavorites == /\ NoDuplicates(project_settings.list)
                            /\ \A p \in FavoritePaths : \A ps \in { project_settings, Unsaved(project_settings) } :
                                  /\ NoDuplicates(add_action_favorite(ps, p).list)
                                  /\ NoDuplicates(remove_action_favorite(ps, p).list)
                                  /\ (has(ps.list, p) => add_action_favorite(ps, p) = ps)
                                  /\ ((~ps.exists \/ ~has(ps.list, p)) => remove_action_favorite(ps, p) = ps)

\* C25 witness: the favorite button of an action was clicked while its
\* path, added outside the menu, was already stored and the item still
\* displayed as no favorite: the list holds the path once.
C25_Witness == clicks.n = 1 /\ clicks.category \in clicks.original /\ has(project_settings.list, clicks.category) /\ Len(project_settings.list) = 2 /\ NoDuplicates(project_settings.list)

\* C26: get_outputs_with_opacity(a) returns the number of output ports of
\* the node whose alpha is a, get_inputs_with_opacity(a) the number of
\* input ports whose alpha is a, whatever the two port counts; when every
\* output port has the alpha a, as after set_all_outputs_opacity(a), the
\* first is the number of output ports.
C26_OpacityCounts == /\ (graph_node.asked.op = "get_outputs_with_opacity" => graph_node.asked.result = Cardinality({ i \in 1..Len(graph_node.right) : graph_node.right[i] = graph_node.asked.opacity }))
                     /\ (graph_node.asked.op = "get_inputs_with_opacity" => graph_node.asked.result = Cardinality({ i \in 1..Len(graph_node.left) : graph_node.left[i] = graph_node.asked.opacity }))
                     /\ ((graph_node.asked.op = "get_outputs_with_opacity" /\ \A i \in 1..Len(graph_node.right) : graph_node.right[i] = graph_node.asked.opacity) => graph_node.asked.result = Len(graph_node.right))

====
